---------------------------- MODULE Spec2Model ----------------------------
(***************************************************************************)
(* A model of STACpopulator/stac_utils.py: the URL validator, the host     *)
(* reachability check, the collection existence check, the collection      *)
(* builder and the collection publisher.                                   *)
(*                                                                         *)
(* Python strings are TLA+ strings; Ch(s, i) is the i-th character.        *)
(***************************************************************************)
EXTENDS Integers, Sequences, FiniteSets, TLC

VARIABLES
    pc,               \* where the caller is: "idle", "wait" (a request is in flight), "done"
    fn,               \* the function being called (or last called)
    parts,            \* url_validate: the pieces the input string was assembled from
    target,           \* url_validate: the argument
    stac_host,        \* the network functions: the host argument (url, for stac_host_reachable)
    json_data,        \* post_stac_collection: the document argument
    collection_id,    \* stac_collection_exists, create_stac_collection: the id argument
    collection_info,  \* create_stac_collection: the caller's mapping (mutated in place)
    before,           \* create_stac_collection: the mapping as it was when the call began
    sent,             \* the requests issued during the call, in order
    replies,          \* what came back for each of them, in order
    console,          \* the lines printed during the call
    ret,              \* how the call ended: [kind |-> "none" | "return" | "raise", ...]
    prev,             \* how the call before this one ended
    calls             \* the number of calls made so far

vars == <<pc, fn, parts, target, stac_host, json_data, collection_id,
          collection_info, before, sent, replies, console, ret, prev, calls>>

-----------------------------------------------------------------------------
(* Strings *)

\* s[i - 1] in Python terms; "" past either end
Ch(s, i) == IF i >= 1 /\ i <= Len(s) THEN SubSeq(s, i, i) ELSE ""

Lower == {"a","b","c","d","e","f","g","h","i","j","k","l","m",
          "n","o","p","q","r","s","t","u","v","w","x","y","z"}
Upper == {"A","B","C","D","E","F","G","H","I","J","K","L","M",
          "N","O","P","Q","R","S","T","U","V","W","X","Y","Z"}
Digit == {"0","1","2","3","4","5","6","7","8","9"}
Space == {" ", "\t", "\n", "\r"}

Alpha == Lower \cup Upper
Alnum == Alpha \cup Digit

\* str.lower() of one character: what re.IGNORECASE folds
LowerOf(c) ==
    CASE c = "A" -> "a" [] c = "B" -> "b" [] c = "C" -> "c" [] c = "D" -> "d"
      [] c = "E" -> "e" [] c = "F" -> "f" [] c = "G" -> "g" [] c = "H" -> "h"
      [] c = "I" -> "i" [] c = "J" -> "j" [] c = "K" -> "k" [] c = "L" -> "l"
      [] c = "M" -> "m" [] c = "N" -> "n" [] c = "O" -> "o" [] c = "P" -> "p"
      [] c = "Q" -> "q" [] c = "R" -> "r" [] c = "S" -> "s" [] c = "T" -> "t"
      [] c = "U" -> "u" [] c = "V" -> "v" [] c = "W" -> "w" [] c = "X" -> "x"
      [] c = "Y" -> "y" [] c = "Z" -> "z"
      [] OTHER -> c

\* s[a+1 .. b] all drawn from the class cls
AllIn(s, a, b, cls) == \A k \in (a + 1)..b : Ch(s, k) \in cls

-----------------------------------------------------------------------------
(* url_validate: the regular expression, piece by piece.  Each XxxEnds(s, i) *)
(* is the set of offsets at which the piece can end when it starts at offset *)
(* i (offset = number of characters consumed).                               *)

MaxLabelMiddle == 61   \* [A-Z\d-]{0,61}
MinTld         == 2    \* [A-Z]{2,6}, [A-Z\d-]{2,}
MaxAlphaTld    == 6    \* [A-Z]{2,6}
MaxOctet       == 3    \* \d{1,3}

\* a literal, compared case-insensitively
LitEnds(s, i, w) ==
    IF i + Len(w) <= Len(s)
       /\ \A k \in 1..Len(w) : LowerOf(Ch(s, i + k)) = Ch(w, k)
    THEN {i + Len(w)} ELSE {}

\* ^(?:http|ftp)s?://
SchemeEnds(s) ==
    LET name == LitEnds(s, 0, "http") \cup LitEnds(s, 0, "ftp")
        opts == name \cup UNION {LitEnds(s, j, "s") : j \in name}
    IN  UNION {LitEnds(s, j, "://") : j \in opts}

\* [A-Z\d](?:[A-Z\d-]{0,61}[A-Z\d])?\.
LabelEnds(s, i) ==
    {j + 1 : j \in {j \in (i + 1)..Len(s) :
                      /\ j - i <= MaxLabelMiddle + 2
                      /\ Ch(s, i + 1) \in Alnum
                      /\ Ch(s, j) \in Alnum
                      /\ AllIn(s, i + 1, j - 1, Alnum \cup {"-"})
                      /\ Ch(s, j + 1) = "."}}

\* (?: label \.)+
RECURSIVE LabelsEnds(_, _)
LabelsEnds(s, i) ==
    LET one == LabelEnds(s, i)
    IN  one \cup UNION {LabelsEnds(s, j) : j \in one}

\* (?:[A-Z]{2,6}\.?|[A-Z\d-]{2,}\.?)
TldEnds(s, i) ==
    LET alpha == {j \in (i + MinTld)..Len(s) :
                    j - i <= MaxAlphaTld /\ AllIn(s, i, j, Alpha)}
        any   == {j \in (i + MinTld)..Len(s) : AllIn(s, i, j, Alnum \cup {"-"})}
        core  == alpha \cup any
    IN  core \cup {j + 1 : j \in {j \in core : Ch(s, j + 1) = "."}}

DomainEnds(s, i) == UNION {TldEnds(s, j) : j \in LabelsEnds(s, i)}

\* \d{1,3}
OctetEnds(s, i) ==
    {j \in (i + 1)..Len(s) : j - i <= MaxOctet /\ AllIn(s, i, j, Digit)}

DotEnds(s, i) == IF Ch(s, i + 1) = "." THEN {i + 1} ELSE {}

\* \d{1,3}\.\d{1,3}\.\d{1,3}\.\d{1,3}
IpEnds(s, i) ==
    LET a == UNION {DotEnds(s, j) : j \in OctetEnds(s, i)}
        b == UNION {DotEnds(s, j) : j \in UNION {OctetEnds(s, k) : k \in a}}
        c == UNION {DotEnds(s, j) : j \in UNION {OctetEnds(s, k) : k \in b}}
    IN  UNION {OctetEnds(s, k) : k \in c}

\* (?: domain | localhost | ip )
HostEnds(s, i) == DomainEnds(s, i) \cup LitEnds(s, i, "localhost") \cup IpEnds(s, i)

\* (?::\d+)?
PortEnds(s, i) ==
    {i} \cup (IF Ch(s, i + 1) = ":"
              THEN {j \in (i + 2)..Len(s) : AllIn(s, i + 1, j, Digit)}
              ELSE {})

\* (?:/?|[/?]\S+)
RestEnds(s, i) ==
    {i} \cup (IF Ch(s, i + 1) = "/" THEN {i + 1} ELSE {})
        \cup (IF Ch(s, i + 1) \in {"/", "?"}
              THEN {j \in (i + 2)..Len(s) : \A k \in (i + 2)..j : Ch(s, k) \notin Space}
              ELSE {})

\* $ without re.MULTILINE: the end of the string, or just before a newline
\* that is the last character
AtDollar(s, i) == i = Len(s) \/ (i = Len(s) - 1 /\ Ch(s, Len(s)) = "\n")

url_validate(s) ==
    \E a \in SchemeEnds(s) : \E b \in HostEnds(s, a) :
    \E c \in PortEnds(s, b) : \E d \in RestEnds(s, c) : AtDollar(s, d)

-----------------------------------------------------------------------------
(* The strings url_validate is applied to: a scheme part, a host, a port,  *)
(* a path and trailing characters, each drawn from a set that holds forms  *)
(* the pattern is meant to accept and forms it is meant to reject.         *)

RECURSIVE Rep(_, _)
Rep(c, n) == IF n = 0 THEN "" ELSE c \o Rep(c, n - 1)

MaxLabel == MaxLabelMiddle + 2

GoodSchemes == {"http://", "https://", "ftp://", "ftps://", "HTTP://", "FtpS://"}
BadSchemes  == {"", "gopher://", "httpss://", "http:/", "//"}

DomainHosts == {"example.com", "sub.example-site.org", "a.bc", "EXAMPLE.COM",
                "example.com.", Rep("a", MaxLabel) \o ".com"}
LocalHosts  == {"localhost", "LocalHost"}
IpHosts     == {"127.0.0.1", "999.999.999.999"}
GoodHosts   == DomainHosts \cup LocalHosts \cup IpHosts
BadHosts    == {"", "example", "a.b", "-a.com", "exa_mple.com", "1.2.3",
                "a..com", Rep("a", MaxLabel + 1) \o ".com"}

GoodPorts == {"", ":21"}
BadPorts  == {":", ":8a"}

GoodPaths == {"", "/", "/a/b?q=1", "?q=1"}
BadPaths  == {"/a b", "#frag"}

Trails == {"", " ", "\n", "\r\n", "\n\n"}

UrlParts ==
    [scheme : GoodSchemes \cup BadSchemes, host : GoodHosts \cup BadHosts,
     port : GoodPorts \cup BadPorts, path : GoodPaths \cup BadPaths, trail : Trails]

Compose(p) == p.scheme \o p.host \o p.port \o p.path \o p.trail

NoParts == [scheme |-> "", host |-> "", port |-> "", path |-> "", trail |-> ""]
NoRet   == [kind |-> "none"]
Return(v) == [kind |-> "return", value |-> v]
Raise(e)  == [kind |-> "raise", exc |-> e]

-----------------------------------------------------------------------------
(* Python values and the requests library as the functions use it *)

PyNone     == [t |-> "None"]
PyStr(x)   == [t |-> "str", s |-> x]
PyBool(x)  == [t |-> "bool", b |-> x]
PyDict(x)  == [t |-> "dict", d |-> x]

\* dict.pop(key): the value and the mapping without the key
Without(d, key) == [k \in (DOMAIN d) \ {key} |-> d[k]]
\* d[key] = value
With(d, key, value) == [k \in (DOMAIN d) \cup {key} |-> IF k = key THEN value ELSE d[k]]

\* os.path.join(a, b): posixpath.join with one more component
os_path_join2(a, b) ==
    IF Ch(b, 1) = "/" THEN b
    ELSE IF a = "" \/ Ch(a, Len(a)) = "/" THEN a \o b
    ELSE a \o "/" \o b

\* os.path.join(a, b, c)
os_path_join(a, b, c) == os_path_join2(os_path_join2(a, b), c)

\* The names bound at module level when a function body runs: the imports
\* and the functions themselves.
ModuleGlobals ==
    {"os", "re", "datetime", "Any", "pystac", "requests", "url_validate",
     "stac_host_reachable", "stac_collection_exists", "create_stac_collection",
     "post_stac_collection", "post_stac_item"}

\* requests.exceptions: every class below derives from RequestException;
\* SSLError and ConnectTimeout also derive from ConnectionError.
RequestExceptions ==
    {"ConnectionError", "SSLError", "ConnectTimeout", "ReadTimeout",
     "MissingSchema", "InvalidURL", "TooManyRedirects", "HTTPError"}
ConnectionErrors == {"ConnectionError", "SSLError", "ConnectTimeout"}

\* what requests.get/post/put can raise instead of returning a response
TransportErrors == RequestExceptions \ {"HTTPError"}

HTTP_OK           == 200
HTTP_CONFLICT     == 409
HTTP_ERROR_FIRST  == 400
HTTP_ERROR_LAST   == 599

\* raise_for_status with its lower limit off by one
raises_for_status_above(status_code) ==
    status_code > HTTP_ERROR_FIRST /\ status_code <= HTTP_ERROR_LAST

\* Response.raise_for_status(): TRUE when it raises HTTPError
raises_for_status(status_code) ==
    status_code >= HTTP_ERROR_FIRST /\ status_code <= HTTP_ERROR_LAST

\* the status codes the server is made to answer with
Statuses == {200, 201, 204, 302, 399, 400, 404, 409, 500, 599, 600}

Replies ==
    [kind : {"response"}, status_code : Statuses]
        \cup [kind : {"failure"}, exc : TransportErrors]

Request(method, url, body, verify) ==
    [method |-> method, url |-> url, json |-> body, verify |-> verify]

-----------------------------------------------------------------------------
(* stac_host_reachable *)

\* the try body once requests.get has come back: the exception it ends
\* with, "" when it runs to return True
reachable_try(reply) ==
    IF reply.kind = "failure" THEN reply.exc
    ELSE IF raises_for_status(reply.status_code) THEN "HTTPError"
    ELSE ""

\* except requests.exceptions.ConnectionError alone
reachable_catches_connection(exc) == exc \in ConnectionErrors

\* except (RequestException, ConnectionError)
reachable_catches(exc) == exc \in RequestExceptions \cup ConnectionErrors

stac_host_reachable_end(reply) ==
    LET exc == reachable_try(reply)
    IN  IF exc = "" THEN Return(PyBool(TRUE))
        ELSE IF reachable_catches(exc) THEN Return(PyBool(FALSE))
        ELSE Raise(exc)

-----------------------------------------------------------------------------
(* stac_collection_exists *)

stac_collection_exists_url(host, id) == os_path_join(host, "collections", id)

\* the result taken from Response.ok instead of the status being 200
stac_collection_exists_end_ok(reply) ==
    IF reply.kind = "failure" THEN Raise(reply.exc)
    ELSE Return(PyBool(~raises_for_status(reply.status_code)))

\* the request wrapped in try/except, as in stac_host_reachable
stac_collection_exists_end_caught(reply) ==
    IF reply.kind = "failure" THEN Return(PyBool(FALSE))
    ELSE Return(PyBool(reply.status_code = HTTP_OK))

\* no try: what requests.get raises leaves the function
stac_collection_exists_end(reply) ==
    IF reply.kind = "failure" THEN Raise(reply.exc)
    ELSE Return(PyBool(reply.status_code = HTTP_OK))

-----------------------------------------------------------------------------
(* post_stac_collection *)

post_stac_collection_url(host) == os_path_join2(host, "collections")

\* The two print calls build their line from bcolors.OKGREEN, bcolors.WARNING
\* and bcolors.ENDC: evaluating the f-string looks the name bcolors up, and
\* the module binds no such name, so the lookup raises NameError.
PrintNames == {"bcolors"}
print_raises == ~(PrintNames \subseteq ModuleGlobals)

InfoLine(id, host, status_code) ==
    [level |-> "OKGREEN", collection_id |-> id, stac_host |-> host, status_code |-> status_code]
WarnLine(id, host, status_code) ==
    [level |-> "WARNING", collection_id |-> id, stac_host |-> host, status_code |-> status_code]

\* What the call does once the n-th request has been answered: how it ends
\* (kind "none": it goes on), what it prints and the request it issues next.
Outcome(r, lines, more) == [ret |-> r, lines |-> lines, more |-> more]

after_post(host, doc, reply) ==
    IF reply.kind = "failure" THEN Outcome(Raise(reply.exc), <<>>, <<>>)
    ELSE IF reply.status_code = HTTP_OK THEN
        IF print_raises THEN Outcome(Raise("NameError"), <<>>, <<>>)
        ELSE Outcome(Return(PyNone), <<InfoLine(doc["id"], host, reply.status_code)>>, <<>>)
    ELSE IF reply.status_code = HTTP_CONFLICT THEN
        IF print_raises THEN Outcome(Raise("NameError"), <<>>, <<>>)
        ELSE Outcome(NoRet, <<WarnLine(doc["id"], host, reply.status_code)>>,
                     <<Request("PUT", post_stac_collection_url(host), doc, FALSE)>>)
    ELSE IF raises_for_status(reply.status_code)
         THEN Outcome(Raise("HTTPError"), <<>>, <<>>)
         ELSE Outcome(Return(PyNone), <<>>, <<>>)

after_put(reply) ==
    IF reply.kind = "failure" THEN Outcome(Raise(reply.exc), <<>>, <<>>)
    ELSE IF raises_for_status(reply.status_code)
         THEN Outcome(Raise("HTTPError"), <<>>, <<>>)
         ELSE Outcome(Return(PyNone), <<>>, <<>>)

post_stac_collection_step(host, doc, n, reply) ==
    IF n = 1 THEN after_post(host, doc, reply) ELSE after_put(reply)

-----------------------------------------------------------------------------
(* The caller of the network functions and the server *)

MaxCalls == 2

EmptyDict == [k \in {} |-> PyNone]

Hosts == {"http://stac", "http://stac/", "https://example.org/stac"}
Ids   == {"c1", "CMIP6", "/c1", ""}
Docs  == {[id |-> PyStr("c1"), description |-> PyStr("d")],
          [id |-> PyStr("CMIP6"), description |-> PyStr("d"), title |-> PyStr("t")],
          [description |-> PyStr("d")]}

NoUrl   == <<parts, target>>
NoBuild == <<collection_info, before>>

\* a call begins: the state of the call before it is forgotten
Begin(name) ==
    /\ pc \in {"idle", "done"}
    /\ calls < MaxCalls
    /\ calls' = calls + 1
    /\ fn' = name
    /\ prev' = ret
    /\ replies' = <<>>
    /\ console' = <<>>

Call_stac_host_reachable ==
    /\ Begin("stac_host_reachable")
    /\ \E url \in Hosts :
         /\ stac_host' = url
         /\ sent' = <<Request("GET", url, PyNone, TRUE)>>
    /\ pc' = "wait"
    /\ ret' = NoRet
    /\ json_data' = EmptyDict
    /\ collection_id' = ""
    /\ UNCHANGED <<NoUrl, NoBuild>>

Call_stac_collection_exists ==
    /\ Begin("stac_collection_exists")
    /\ \E host \in Hosts, id \in Ids :
         /\ stac_host' = host
         /\ collection_id' = id
         /\ sent' = <<Request("GET", stac_collection_exists_url(host, id), PyNone, FALSE)>>
    /\ pc' = "wait"
    /\ ret' = NoRet
    /\ json_data' = EmptyDict
    /\ UNCHANGED <<NoUrl, NoBuild>>

Call_post_stac_collection ==
    /\ Begin("post_stac_collection")
    /\ \E host \in Hosts, doc \in Docs :
         /\ stac_host' = host
         /\ json_data' = doc
         /\ IF "id" \in DOMAIN doc
            THEN /\ sent' = <<Request("POST", post_stac_collection_url(host), doc, FALSE)>>
                 /\ pc' = "wait"
                 /\ ret' = NoRet
            ELSE \* json_data["id"]
                 /\ sent' = <<>>
                 /\ pc' = "done"
                 /\ ret' = Raise("KeyError: 'id'")
    /\ collection_id' = ""
    /\ UNCHANGED <<NoUrl, NoBuild>>

\* requests.get/post/put comes back, with a response or with an exception,
\* and the function runs on to its end or to its next request
Respond ==
    /\ pc = "wait"
    /\ \E reply \in Replies :
         /\ replies' = Append(replies, reply)
         /\ CASE fn = "stac_host_reachable" ->
                   /\ ret' = stac_host_reachable_end(reply)
                   /\ pc' = "done"
                   /\ UNCHANGED <<sent, console>>
              [] fn = "stac_collection_exists" ->
                   /\ ret' = stac_collection_exists_end(reply)
                   /\ pc' = "done"
                   /\ UNCHANGED <<sent, console>>
              [] fn = "post_stac_collection" ->
                   LET o == post_stac_collection_step(stac_host, json_data, Len(sent), reply)
                   IN  /\ ret' = o.ret
                       /\ console' = console \o o.lines
                       /\ sent' = sent \o o.more
                       /\ pc' = IF o.ret.kind = "none" THEN "wait" ELSE "done"
    /\ UNCHANGED <<fn, stac_host, json_data, collection_id, prev, calls, NoUrl, NoBuild>>

Init ==
    /\ pc = "idle"
    /\ fn = "none"
    /\ parts = NoParts
    /\ target = ""
    /\ stac_host = ""
    /\ json_data = EmptyDict
    /\ collection_id = ""
    /\ collection_info = EmptyDict
    /\ before = EmptyDict
    /\ sent = <<>>
    /\ replies = <<>>
    /\ console = <<>>
    /\ ret = NoRet
    /\ prev = NoRet
    /\ calls = 0

Next ==
    \/ Call_stac_host_reachable
    \/ Call_stac_collection_exists
    \/ Call_post_stac_collection
    \/ Respond

Spec == Init /\ [][Next]_vars

-----------------------------------------------------------------------------
(* Properties of the network functions, under Spec *)

Ended(name) == pc = "done" /\ fn = name

\* the first request of the call was answered by a response with this status
Answered(code) ==
    /\ Len(replies) >= 1
    /\ replies[1].kind = "response"
    /\ replies[1].status_code = code

FirstFailed == Len(replies) >= 1 /\ replies[1].kind = "failure"

PlainUrl(host, id) == host \o "/collections/" \o id

\* C1: when the POST is answered 200, post_stac_collection ends without an
\* exception, having printed the info line naming the collection and the
\* host, and the POST is the only request it made.
C1_SuccessOn200 ==
    (fn = "post_stac_collection" /\ Answered(200)) =>
        /\ pc = "done"
        /\ ret = Return(PyNone)
        /\ console = <<InfoLine(json_data["id"], stac_host, 200)>>
        /\ Len(sent) = 1
        /\ sent[1].method = "POST"

\* C2: when the POST is answered 409, post_stac_collection prints a warning
\* and issues exactly one PUT to {host}/collections with the body of the POST;
\* it ends without an exception if the PUT is answered 2xx and with HTTPError
\* otherwise.  No PUT comes first, and none unless the POST was answered 409.
C2_PutOn409 ==
    /\ (fn = "post_stac_collection" /\ Answered(409)) =>
          /\ Len(sent) = 2
          /\ sent[2] = Request("PUT", post_stac_collection_url(stac_host), json_data, FALSE)
          /\ sent[2].json = sent[1].json
          /\ console = <<WarnLine(json_data["id"], stac_host, 409)>>
          /\ pc = "done" =>
                /\ Len(replies) = 2
                /\ replies[2].kind = "response" =>
                      IF replies[2].status_code \in 200..299
                      THEN ret = Return(PyNone)
                      ELSE ret = Raise("HTTPError")
    /\ \A i \in 1..Len(sent) :
          sent[i].method = "PUT" => (i = 2 /\ sent[1].method = "POST" /\ Answered(409))

\* C3: for every POST status other than 200 and 409 (201, 204, 302 as well
\* as 4xx/5xx), post_stac_collection ends at once with HTTPError and issues
\* no PUT.
C3_OtherStatusRaises ==
    (Ended("post_stac_collection") /\ Len(replies) >= 1
       /\ replies[1].kind = "response" /\ replies[1].status_code \notin {200, 409}) =>
        /\ ret = Raise("HTTPError")
        /\ Len(sent) = 1

\* C3, amended: for a POST status other than 200 and 409 no PUT is issued
\* and nothing is printed; the call ends with HTTPError exactly when the
\* status is in 400..599, and returns None for every other status.
C3_OtherStatus ==
    (fn = "post_stac_collection" /\ Len(replies) >= 1
       /\ replies[1].kind = "response" /\ replies[1].status_code \notin {200, 409}) =>
        /\ pc = "done"
        /\ Len(sent) = 1
        /\ console = <<>>
        /\ replies[1].status_code \in 400..599 => ret = Raise("HTTPError")
        /\ replies[1].status_code \notin 400..599 => ret = Return(PyNone)

C3_Witness ==
    /\ Ended("post_stac_collection") /\ Answered(404)
    /\ ret = Raise("HTTPError") /\ Len(sent) = 1

C5_FailureIsFalse ==
    (Ended("stac_collection_exists") /\ FirstFailed) => ret = Return(PyBool(FALSE))

\* C5, amended: a transport failure of the GET in stac_collection_exists is
\* not caught: the call ends with the exception requests raised, after that
\* one request, and returns nothing.
C5_FailurePropagates ==
    (fn = "stac_collection_exists" /\ FirstFailed) =>
        /\ pc = "done"
        /\ ret = Raise(replies[1].exc)
        /\ replies[1].exc \in TransportErrors
        /\ Len(sent) = 1

C5_Witness ==
    /\ Ended("stac_collection_exists") /\ FirstFailed
    /\ replies[1].exc = "ConnectionError"
    /\ ret = Raise("ConnectionError")

\* C6: stac_host_reachable never raises: it makes one GET and no more, and
\* returns True exactly when a response came back whose status is not 4xx
\* or 5xx, and False on every transport failure and every error status.
C6_ReachableNeverRaises ==
    fn = "stac_host_reachable" =>
        /\ Len(sent) = 1
        /\ sent[1].method = "GET"
        /\ sent[1].url = stac_host
        /\ ret.kind # "raise"
        /\ pc = "done" =>
              /\ Len(replies) = 1
              /\ ret.kind = "return"
              /\ ret.value = PyBool(/\ replies[1].kind = "response"
                                    /\ replies[1].status_code \notin 400..599)

C6_Witness ==
    /\ Ended("stac_host_reachable") /\ FirstFailed
    /\ replies[1].exc = "ReadTimeout"
    /\ ret = Return(PyBool(FALSE))

-----------------------------------------------------------------------------
(* url_validate applied to each assembled string *)

NoNet == <<stac_host, json_data, collection_id, sent, replies, console>>

InitUrl ==
    /\ pc = "idle"
    /\ fn = "none"
    /\ parts \in UrlParts
    /\ target = Compose(parts)
    /\ stac_host = ""
    /\ json_data = EmptyDict
    /\ collection_id = ""
    /\ collection_info = EmptyDict
    /\ before = EmptyDict
    /\ sent = <<>>
    /\ replies = <<>>
    /\ console = <<>>
    /\ ret = NoRet
    /\ prev = NoRet
    /\ calls = 0

Call_url_validate ==
    /\ pc = "idle"
    /\ fn' = "url_validate"
    /\ ret' = Return(PyBool(url_validate(target)))
    /\ pc' = "done"
    /\ prev' = ret
    /\ calls' = calls + 1
    /\ UNCHANGED <<NoUrl, NoNet, NoBuild>>

NextUrl == Call_url_validate

SpecUrl == InitUrl /\ [][NextUrl]_vars

WellFormed(p) ==
    /\ p.scheme \in GoodSchemes
    /\ p.host \in GoodHosts
    /\ p.port \in GoodPorts
    /\ p.path \in GoodPaths

\* C9: url_validate is true of every scheme://host[:port][path] with scheme
\* http, https, ftp or ftps in any case and host a dotted domain name,
\* localhost or four groups of one to three digits; it is false of every
\* string without the scheme or without such a host; and it is false of a
\* valid URL followed by trailing whitespace or a newline.
C9_UrlForms ==
    Ended("url_validate") =>
        /\ (WellFormed(parts) /\ parts.trail = "") => ret = Return(PyBool(TRUE))
        /\ (parts.scheme \in BadSchemes \/ parts.host \in BadHosts)
              => ret = Return(PyBool(FALSE))
        /\ (WellFormed(parts) /\ parts.trail # "") => ret = Return(PyBool(FALSE))

-----------------------------------------------------------------------------
(* create_stac_collection: datetime.strptime(s, "%Y-%m-%d") *)

Digits10 == "0123456789"
DigitVal(c) == CHOOSE k \in 0..9 : Ch(Digits10, k + 1) = c
DigitStr(k) == Ch(Digits10, k + 1)

MinYear == 1

\* %Y is \d\d\d\d: the offset after it, from offset 0
YearEnds(s) == IF Len(s) >= 4 /\ AllIn(s, 0, 4, Digit) THEN {4} ELSE {}

\* %m is 1[0-2]|0[1-9]|[1-9]
MonthEnds(s, i) ==
    (IF Ch(s, i + 1) = "1" /\ Ch(s, i + 2) \in {"0", "1", "2"} THEN {i + 2} ELSE {})
    \cup (IF Ch(s, i + 1) = "0" /\ Ch(s, i + 2) \in Digit \ {"0"} THEN {i + 2} ELSE {})
    \cup (IF Ch(s, i + 1) \in Digit \ {"0"} THEN {i + 1} ELSE {})

\* %d is 3[0-1]|[1-2]\d|0[1-9]|[1-9]| [1-9]
DayEnds(s, i) ==
    (IF Ch(s, i + 1) = "3" /\ Ch(s, i + 2) \in {"0", "1"} THEN {i + 2} ELSE {})
    \cup (IF Ch(s, i + 1) \in {"1", "2"} /\ Ch(s, i + 2) \in Digit THEN {i + 2} ELSE {})
    \cup (IF Ch(s, i + 1) = "0" /\ Ch(s, i + 2) \in Digit \ {"0"} THEN {i + 2} ELSE {})
    \cup (IF Ch(s, i + 1) \in Digit \ {"0"} THEN {i + 1} ELSE {})
    \cup (IF Ch(s, i + 1) = " " /\ Ch(s, i + 2) \in Digit \ {"0"} THEN {i + 2} ELSE {})

\* int() of s[a+1 .. b], a blank before the digits skipped
RECURSIVE IntOf(_, _, _)
IntOf(s, a, b) ==
    IF b <= a THEN 0
    ELSE IF Ch(s, b) = " " THEN IntOf(s, a, b - 1)
    ELSE 10 * IntOf(s, a, b - 1) + DigitVal(Ch(s, b))

IsLeap(y) == y % 4 = 0 /\ (y % 100 # 0 \/ y % 400 = 0)
DaysInMonth(y, m) ==
    IF m = 2 THEN (IF IsLeap(y) THEN 29 ELSE 28)
    ELSE IF m \in {4, 6, 9, 11} THEN 30 ELSE 31

\* The ways the format matches the whole string: <<end of month, end of day>>.
\* The day is the last directive, and strptime rejects a string the match
\* does not use up ("unconverted data remains").
Matches(s) ==
    {m \in UNION {{<<b, d>> : d \in DayEnds(s, b + 1)} :
                   b \in {b \in UNION {MonthEnds(s, a + 1) : a \in YearEnds(s)} :
                            Ch(s, b + 1) = "-"}} :
       Ch(s, 5) = "-" /\ m[2] = Len(s)}

NoDate == [ok |-> FALSE]

\* datetime.strptime(s, "%Y-%m-%d"): [ok |-> FALSE] stands for ValueError
strptime(s) ==
    IF Matches(s) = {} THEN NoDate
    ELSE LET m == CHOOSE x \in Matches(s) : TRUE
             y == IntOf(s, 0, 4)
             mo == IntOf(s, 5, m[1])
             d == IntOf(s, m[1] + 1, m[2])
         IN  IF y >= MinYear /\ d <= DaysInMonth(y, mo)
             THEN [ok |-> TRUE, year |-> y, month |-> mo, day |-> d]
             ELSE NoDate

Pad2(n) == DigitStr(n \div 10) \o DigitStr(n % 10)
Pad4(n) == Pad2(n \div 100) \o Pad2(n % 100)

\* pystac's datetime_to_str of a naive midnight datetime, as to_dict writes it
datetime_to_str(d) ==
    Pad4(d.year) \o "-" \o Pad2(d.month) \o "-" \o Pad2(d.day) \o "T00:00:00Z"

-----------------------------------------------------------------------------
(* create_stac_collection *)

\* the mapping a pop leaves, were the key read with [] and left in place
pop_keep(d, key) == d

\* the mapping collection_info.pop(key) leaves (the key is there)
pop(d, key) == Without(d, key)

\* the bounding box handed over bare
SpatialExtent_flat(bbox) == [bbox |-> bbox]

\* pystac.SpatialExtent([bbox]).to_dict()
SpatialExtent(bbox) == [bbox |-> <<bbox>>]

\* a bound tested for truth, which an empty string fails as None does
parse_bound_truthy(b) ==
    IF b # PyNone /\ b # PyStr("") THEN strptime(b.s) ELSE [ok |-> TRUE, none |-> TRUE]

\* datetime.strptime(tmp[k], "%Y-%m-%d") if tmp[k] is not None else None
parse_bound(b) ==
    IF b # PyNone THEN strptime(b.s) ELSE [ok |-> TRUE, none |-> TRUE]

\* one side of the interval as TemporalExtent.to_dict() writes it
IntervalSide(d) == IF "none" \in DOMAIN d THEN PyNone ELSE PyStr(datetime_to_str(d))

\* pystac.TemporalExtent([[start, end]]).to_dict()
TemporalExtent(d0, d1) == [interval |-> << <<IntervalSide(d0), IntervalSide(d1)>> >>]

\* pystac.Extent(sp_extent, tmp_extent).to_dict()
Extent(sp, tm) == [spatial |-> sp, temporal |-> tm]

\* pystac.Summaries({"needs_summaries_update": ["true"]}).to_dict()
Summaries == [needs_summaries_update |-> <<"true">>]

\* the keyword parameters of pystac.Collection besides id
CollectionParams ==
    {"description", "extent", "title", "stac_extensions", "href", "extra_fields",
     "catalog_type", "license", "keywords", "providers", "summaries", "assets"}
CollectionRequired == {"description", "extent"}

\* pystac.Collection(id=collection_id, **collection_info): TRUE when the call
\* itself fails with TypeError (id given twice, a keyword the constructor
\* does not have, a required argument left out)
Collection_raises(info) ==
    \/ "id" \in DOMAIN info
    \/ ~(DOMAIN info \subseteq CollectionParams)
    \/ ~(CollectionRequired \subseteq DOMAIN info)

\* collection.to_dict(): the id and what the mapping gave; the fields the
\* constructor fills with its defaults are left out
to_dict(id, info) ==
    [k \in {"type", "id", "links"} \cup DOMAIN info |->
        IF k = "type" THEN PyStr("Collection")
        ELSE IF k = "id" THEN PyStr(id)
        ELSE IF k = "links" THEN <<>>
        ELSE info[k]]

Built(r, info) == [ret |-> r, info |-> info]

\* the call: how it ends, and the caller's mapping as it leaves it
create_stac_collection(id, info) ==
    IF "spatialextent" \notin DOMAIN info
    THEN Built(Raise("KeyError: 'spatialextent'"), info)
    ELSE
    LET sp_extent == SpatialExtent(info["spatialextent"])
        i1 == pop(info, "spatialextent")
    IN  IF "temporalextent" \notin DOMAIN i1
        THEN Built(Raise("KeyError: 'temporalextent'"), i1)
        ELSE
        LET tmp == i1["temporalextent"]
            i2 == pop(i1, "temporalextent")
            d0 == parse_bound(tmp[1])
            d1 == parse_bound(tmp[2])
        IN  IF ~d0.ok \/ ~d1.ok
            THEN Built(Raise("ValueError"), i2)
            ELSE
            LET i3 == With(With(i2, "extent", Extent(sp_extent, TemporalExtent(d0, d1))),
                           "summaries", Summaries)
            IN  IF Collection_raises(i3)
                THEN Built(Raise("TypeError"), i3)
                ELSE Built(Return(PyDict(to_dict(id, i3))), i3)

-----------------------------------------------------------------------------
(* The descriptors create_stac_collection is applied to *)

\* Each text a temporal bound is given as, with the date strptime makes of
\* it as to_dict writes it; "" where strptime raises ValueError.
BoundCases ==
    {<<"2000-01-01", "2000-01-01T00:00:00Z">>,
     <<"2020-12-31", "2020-12-31T00:00:00Z">>,
     <<"2000-02-29", "2000-02-29T00:00:00Z">>,
     <<"2000-1-5", "2000-01-05T00:00:00Z">>,
     <<"0001-01-01", "0001-01-01T00:00:00Z">>,
     <<"", "">>,
     <<"1900-02-29", "">>,
     <<"2000-13-01", "">>,
     <<"2000/01/01", "">>,
     <<"2000-01-01 ", "">>,
     <<"20000-01-01", "">>,
     <<"01-01-2000", "">>}

TemporalBounds == {PyNone} \cup {PyStr(c[1]) : c \in BoundCases}

Boxes == {<<-180, -90, 180, 90>>, <<-10, 40, 5, 60>>}

\* the other fields of a descriptor
Fields ==
    {[description |-> PyStr("d")],
     [description |-> PyStr("d"), title |-> PyStr("t"), license |-> PyStr("MIT")],
     [description |-> PyStr("d"), title |-> PyStr("t"), keywords |-> <<"k">>],
     [title |-> PyStr("t")],
     [description |-> PyStr("d"), title |-> PyStr("t"), id |-> PyStr("c1")],
     [description |-> PyStr("d"), links |-> <<>>]}

Descriptors ==
    {f @@ [spatialextent |-> box, temporalextent |-> <<b0, b1>>] :
        f \in Fields, box \in Boxes, b0 \in TemporalBounds, b1 \in TemporalBounds}
    \cup {f @@ [spatialextent |-> box] : f \in Fields, box \in Boxes}
    \cup {f @@ [temporalextent |-> <<b0, PyNone>>] : f \in Fields, b0 \in TemporalBounds}

InitBuild ==
    /\ pc = "idle"
    /\ fn = "none"
    /\ parts = NoParts
    /\ target = ""
    /\ stac_host = ""
    /\ json_data = EmptyDict
    /\ collection_id \in {"c1", "CMIP6"}
    /\ collection_info \in Descriptors
    /\ before = EmptyDict
    /\ sent = <<>>
    /\ replies = <<>>
    /\ console = <<>>
    /\ ret = NoRet
    /\ prev = NoRet
    /\ calls = 0

\* the caller calls with its mapping, the first time or again
Call_create_stac_collection ==
    /\ pc \in {"idle", "done"}
    /\ calls < MaxCalls
    /\ LET r == create_stac_collection(collection_id, collection_info)
       IN  /\ ret' = r.ret
           /\ collection_info' = r.info
    /\ before' = collection_info
    /\ fn' = "create_stac_collection"
    /\ pc' = "done"
    /\ prev' = ret
    /\ calls' = calls + 1
    /\ UNCHANGED <<NoUrl, NoNet>>

NextBuild == Call_create_stac_collection

SpecBuild == InitBuild /\ [][NextBuild]_vars

-----------------------------------------------------------------------------
(* Properties of create_stac_collection, under SpecBuild *)

ExtentKeys == {"spatialextent", "temporalextent"}

\* the date text t is to become, "" when it is to be refused
Expected(t) == (CHOOSE c \in BoundCases : c[1] = t)[2]

\* a bound that is None or a date strptime accepts
GoodBound(b) == b = PyNone \/ Expected(b.s) # ""

\* the interval side a good bound is to produce
Side(b) == IF b = PyNone THEN PyNone ELSE PyStr(Expected(b.s))

\* the call was made on a descriptor that carries both extents, with good
\* temporal bounds, and a description
Described ==
    /\ Ended("create_stac_collection")
    /\ ExtentKeys \cup {"description"} \subseteq DOMAIN before
    /\ GoodBound(before["temporalextent"][1])
    /\ GoodBound(before["temporalextent"][2])

\* what C7 says of the returned document
DocumentShape ==
    /\ ret.kind = "return"
    /\ ret.value.d["id"] = PyStr(collection_id)
    /\ ret.value.d["extent"].spatial.bbox = <<before["spatialextent"]>>
    /\ Len(ret.value.d["extent"].temporal.interval) = 1
    /\ Len(ret.value.d["extent"].temporal.interval[1]) = 2
    /\ "needs_summaries_update" \in DOMAIN ret.value.d["summaries"]

\* the fields of a Collection Descriptor in the data model
DataModelKeys ==
    ExtentKeys \cup {"id", "title", "description", "license", "keywords"}

\* C7: for every collection id and every descriptor of the data model (id,
\* title, description, license, spatialextent, temporalextent with valid
\* bounds, pass-through fields) the call returns a document with the id
\* passed in, the one bounding box in a list, one [start, end] pair and the
\* summaries key needs_summaries_update.
C7_DocumentShape ==
    (Described /\ DOMAIN before \subseteq DataModelKeys) => DocumentShape

\* C7, amended: the same, for every descriptor that carries no id key of its
\* own and whose fields besides the two extents are keyword parameters of
\* the Collection constructor; a descriptor that carries an id key makes the
\* call fail with TypeError.
C7_DocumentShapeWithoutId ==
    Described =>
        /\ ("id" \notin DOMAIN before
              /\ DOMAIN before \subseteq ExtentKeys \cup CollectionParams) => DocumentShape
        /\ "id" \in DOMAIN before => ret = Raise("TypeError")

C7_Witness ==
    /\ Described /\ DocumentShape
    /\ collection_id = "CMIP6"
    /\ "license" \in DOMAIN before
    /\ ret.value.d["extent"].spatial.bbox = << <<-180, -90, 180, 90>> >>
    /\ ret.value.d["extent"].temporal.interval
         = << <<PyStr("2000-01-01T00:00:00Z"), PyStr("2020-12-31T00:00:00Z")>> >>

\* the call got as far as the temporal bounds, and past them nothing fails
Parsing ==
    /\ Ended("create_stac_collection")
    /\ ExtentKeys \cup {"description"} \subseteq DOMAIN before
    /\ DOMAIN before \subseteq ExtentKeys \cup CollectionParams

\* C8: each bound on its own: an empty or None bound gives an open side
\* (None) and no error, a bound that is a date is parsed to that date, and
\* any other non-empty bound makes the call fail with the parsing error.
Open(b) == b = PyNone \/ b = PyStr("")
C8_BoundsEmptyOpen ==
    Parsing =>
        LET b == before["temporalextent"]
            bad(x) == ~Open(x) /\ Expected(x.s) = ""
            side(x) == IF Open(x) THEN PyNone ELSE PyStr(Expected(x.s))
        IN  IF bad(b[1]) \/ bad(b[2])
            THEN ret = Raise("ValueError")
            ELSE /\ ret.kind = "return"
                 /\ ret.value.d["extent"].temporal.interval = << <<side(b[1]), side(b[2])>> >>

\* C8, amended: each bound on its own: a None bound gives an open side
\* (None) and no error; a string bound is handed to strptime with %Y-%m-%d,
\* and a string it accepts (four-digit year, month and day of one or two
\* digits, a real date) is parsed to that date, while any other string, the
\* empty one included, makes the call fail with the parsing error.
C8_BoundsNoneOpen ==
    Parsing =>
        LET b == before["temporalextent"]
        IN  IF ~GoodBound(b[1]) \/ ~GoodBound(b[2])
            THEN ret = Raise("ValueError")
            ELSE /\ ret.kind = "return"
                 /\ ret.value.d["extent"].temporal.interval = << <<Side(b[1]), Side(b[2])>> >>

C8_Witness ==
    /\ Parsing
    /\ before["temporalextent"] = <<PyStr("2000-1-5"), PyNone>>
    /\ ret.kind = "return"
    /\ ret.value.d["extent"].temporal.interval = << <<PyStr("2000-01-05T00:00:00Z"), PyNone>> >>

\* C10: a call that reaches extraction changes the caller's mapping whether
\* it returns or fails: spatialextent and temporalextent are gone from it
\* and are not put back.  A second call with the mapping a first call left
\* fails on the missing spatialextent key and leaves the mapping as it found
\* it: it does not produce the document again.
C10_MappingConsumed ==
    Ended("create_stac_collection") =>
        /\ "spatialextent" \in DOMAIN before =>
              /\ DOMAIN collection_info # DOMAIN before
              /\ ExtentKeys \cap DOMAIN collection_info = {}
              /\ \A k \in DOMAIN before \ ExtentKeys :
                    k \in DOMAIN collection_info /\ collection_info[k] = before[k]
        /\ calls >= 2 =>
              /\ ret = Raise("KeyError: 'spatialextent'")
              /\ DOMAIN collection_info = DOMAIN before
              /\ \A k \in DOMAIN before : collection_info[k] = before[k]

C10_Witness ==
    /\ Ended("create_stac_collection")
    /\ calls = 2
    /\ prev.kind = "return"
    /\ ret = Raise("KeyError: 'spatialextent'")
    /\ ExtentKeys \cap DOMAIN collection_info = {}

=============================================================================
